---- MODULE Spec2Model ----
(***************************************************************************)
(* Model of examples/traffic_analysis/script.py: process_video drives a    *)
(* frame-by-frame loop (fetch, detect, track, annotate, sink) in one of    *)
(* two sink modes, file (sv.VideoSink) or display (cv2.imshow / waitKey).  *)
(* Every statement of process_video and process_frame is one action; the   *)
(* position in the code is pc.  The collaborators that live in the         *)
(* supervision library (VideoInfo, VideoSink, ByteTrack) are modelled at   *)
(* their interface.                                                        *)
(***************************************************************************)
EXTENDS Integers, Sequences, FiniteSets, TLC

\* ---------------------------------------------------------------- bounds
MaxFrames == 3
MaxDet == 2

\* ------------------------------------------------------- program constants
DefaultTargetPath == "<None>"
ByteMask == 255
OrdQ == 113
CanonicalClass == 0
FirstTrackId == 1

\* ------------------------------------------------------ input value sets
Pixels == {"p", "q"}
Boxes == {"b1", "b2"}
Classes == {0, 2}
SourceConfig == "640x480@30"
Configs == {SourceConfig, "1280x720@25"}
TargetPaths == {DefaultTargetPath, "", "out.mp4"}
\* cv2.waitKey: -1 no key, 113 'q', 81 'Q', 369 'q' with a modifier bit set
Keys == {-1, 113, 81, 369}

RECURSIVE SeqsUpTo(_, _)
SeqsUpTo(S, n) ==
    IF n = 0 THEN {<<>>}
    ELSE LET shorter == SeqsUpTo(S, n - 1)
         IN  shorter \cup {Append(s, x) : s \in {t \in shorter : Len(t) = n - 1}, x \in S}

Videos == SeqsUpTo(Pixels, MaxFrames)
RawDetection == [box : Boxes, class_id : Classes]
\* overlap suppression leaves no two results of a frame on the same box
RawResults ==
    {r \in SeqsUpTo(RawDetection, MaxDet) :
        \A i, j \in 1..Len(r) : r[i].box = r[j].box => i = j}

VARIABLES
    target_video_path,  \* argument of process_video
    source,             \* the video file: openable, frames, total_frames, cfg
    pc,                 \* position in process_video / process_frame
    error,              \* exception in flight or surfaced ("none" if none)
    tracker,            \* sv.ByteTrack instance state
    trackerInst,        \* number of ByteTrack instances constructed
    pos,                \* frames the generator has yielded so far
    video_info,         \* sv.VideoInfo, NoVideoInfo before line 20
    frame,              \* loop variable
    results,            \* local of process_frame
    detections,         \* local of process_frame
    labels,             \* local of process_frame
    annotated_frame,    \* local of process_video
    sink,               \* sv.VideoSink: state, cfg, frames written
    display,            \* cv2 windows: open, frames shown, destroy calls
    detHist,            \* history: detector results per frame
    updHist,            \* history: arguments and results of tracker updates
    log,                \* history: stage invocations <<stage, frame no>>
    quitAt              \* history: frame no at whose poll quit was seen, or 0

vars == <<target_video_path, source, pc, error, tracker, trackerInst, pos,
          video_info, frame, results, detections, labels, annotated_frame,
          sink, display, detHist, updHist, log, quitAt>>

locals == <<frame, results, detections, labels, annotated_frame>>
hist == <<detHist, updHist, log, quitAt>>
args == <<target_video_path, source>>

\* --------------------------------------------------------------- helpers
\* Python truthiness of target_video_path (None and "" are falsy)
TruthyNotNone(p) == p # DefaultTargetPath
Truthy(p) == p # DefaultTargetPath /\ p # ""

\* cv2.waitKey(1) & 0xFF == ord('q')
IsQuitNoMask(key) == key = OrdQ
IsQuit(key) == (key % (ByteMask + 1)) = OrdQ

Event(stage) == <<stage, pos>>

\* where control goes when a statement raises: inside the with-block the
\* context manager's __exit__ runs first, elsewhere nothing intercepts
RaiseTargetNoWith == "raised"
RaiseTargetContinue == "loop"
RaiseTarget == IF sink.state = "open" THEN "sink_exit" ELSE "raised"

\* ------------------------------------------------------------ collaborators
\* sv.VideoInfo.from_video_path
NoVideoInfo == [total_frames |-> 0, cfg |-> "none"]
VideoInfoReadable == source.openable /\ source.total_frames > 0
VideoInfoOf == [total_frames |-> source.total_frames, cfg |-> source.cfg]

\* sv.Detections.from_ultralytics
FromUltralytics(res) ==
    [i \in 1..Len(res) |->
        [box |-> res[i].box, class_id |-> res[i].class_id, tracker_id |-> 0]]

\* detections.class_id = np.zeros(len(detections))
OverrideClassKeep(dets) == dets
OverrideClass(dets) ==
    [i \in 1..Len(dets) |-> [dets[i] EXCEPT !.class_id = CanonicalClass]]

\* sv.ByteTrack.update_with_detections
RECURSIVE TrackerUpdate(_, _, _)
TrackerUpdate(trk, dets, out) ==
    IF dets = <<>> THEN [tracker |-> trk, out |-> out]
    ELSE LET d == Head(dets)
             known == d.box \in DOMAIN trk.tracks
             id == IF known THEN trk.tracks[d.box] ELSE trk.next_id
             trk2 == IF known THEN trk
                     ELSE [next_id |-> trk.next_id + 1,
                           tracks |-> [b \in DOMAIN trk.tracks \cup {d.box} |->
                                         IF b = d.box THEN id ELSE trk.tracks[b]]]
         IN  TrackerUpdate(trk2, Tail(dets), Append(out, [d EXCEPT !.tracker_id = id]))

EmptyTracker == [next_id |-> FirstTrackId, tracks |-> <<>>]

\* labels = [f"#{tracker_id}" for ... in detections]
LabelsOf(dets) == [i \in 1..Len(dets) |-> <<"#", dets[i].tracker_id>>]

\* an image: its decoded pixels and what has been drawn on it
Decode(px) == [scene |-> px, detections |-> <<>>, labels |-> <<>>]
NoFrame == Decode("none")

\* box_annotator.annotate(scene, detections, labels): draws on scene, returns it
Annotate(scene, dets, lbls) ==
    [scene |-> scene.scene,
     detections |-> scene.detections \o dets,
     labels |-> scene.labels \o lbls]

BoxesOf(dets) == [i \in 1..Len(dets) |-> dets[i].box]

\* ------------------------------------------------------------------ Init
Init ==
    /\ target_video_path \in TargetPaths
    /\ \E v \in Videos, o \in BOOLEAN, t \in 0..MaxFrames :
          /\ t \in {Len(v), MaxFrames}
          /\ source = [openable |-> o, frames |-> IF o THEN v ELSE <<>>,
                       total_frames |-> IF o THEN t ELSE 0, cfg |-> SourceConfig]
    /\ pc = "start"
    /\ error = "none"
    /\ tracker = EmptyTracker
    /\ trackerInst = 0
    /\ pos = 0
    /\ video_info = NoVideoInfo
    /\ frame = NoFrame
    /\ results = <<>>
    /\ detections = <<>>
    /\ labels = <<>>
    /\ annotated_frame = NoFrame
    /\ sink = [state |-> "absent", cfg |-> "none", frames |-> <<>>]
    /\ display = [open |-> FALSE, frames |-> <<>>, destroyed |-> 0]
    /\ detHist = <<>>
    /\ updHist = <<>>
    /\ log = <<>>
    /\ quitAt = 0

\* --------------------------------------------------------------- actions
\* lines 16-19: model, tracker, annotator and the lazy frame generator
SetupOpensSink ==
    /\ pc = "start"
    /\ tracker' = EmptyTracker
    /\ trackerInst' = trackerInst + 1
    /\ pos' = 0
    /\ sink' = IF Truthy(target_video_path) THEN [sink EXCEPT !.state = "open"] ELSE sink
    /\ pc' = "info"
    /\ UNCHANGED <<args, error, video_info, locals, display, hist>>

Setup ==
    /\ pc = "start"
    /\ tracker' = EmptyTracker
    /\ trackerInst' = trackerInst + 1
    /\ pos' = 0
    /\ pc' = "info"
    /\ UNCHANGED <<args, error, video_info, locals, sink, display, hist>>

\* line 20: video_info = sv.VideoInfo.from_video_path(...)
ReadVideoInfo ==
    /\ pc = "info"
    /\ VideoInfoReadable
    /\ video_info' = VideoInfoOf
    /\ pc' = "branch"
    /\ UNCHANGED <<args, error, tracker, trackerInst, pos, locals, sink, display, hist>>

ReadVideoInfoFails ==
    /\ pc = "info"
    /\ ~VideoInfoReadable
    /\ error' = "SourceUnreadable"
    /\ pc' = RaiseTarget
    /\ UNCHANGED <<args, tracker, trackerInst, pos, video_info, locals, sink, display, hist>>

\* line 22: if target_video_path:
BranchPollFirst ==
    /\ pc = "branch"
    /\ pc' = IF Truthy(target_video_path) THEN "sink_enter" ELSE "poll"
    /\ UNCHANGED <<args, error, tracker, trackerInst, pos, video_info, locals,
                   sink, display, hist>>

BranchSkipSink ==
    /\ pc = "branch"
    /\ pc' = "loop"
    /\ UNCHANGED <<args, error, tracker, trackerInst, pos, video_info, locals,
                   sink, display, hist>>

Branch ==
    /\ pc = "branch"
    /\ pc' = IF Truthy(target_video_path) THEN "sink_enter" ELSE "loop"
    /\ UNCHANGED <<args, error, tracker, trackerInst, pos, video_info, locals,
                   sink, display, hist>>

\* line 23: with sv.VideoSink(target_path, video_info) as sink  (__enter__)
SinkEnter ==
    /\ pc = "sink_enter"
    /\ sink' = [state |-> "open", cfg |-> video_info.cfg, frames |-> <<>>]
    /\ pc' = "loop"
    /\ UNCHANGED <<args, error, tracker, trackerInst, pos, video_info, locals,
                   display, hist>>

SinkEnterFails ==
    /\ pc = "sink_enter"
    /\ \E c \in Configs :
          /\ c # video_info.cfg
          /\ sink' = [sink EXCEPT !.cfg = c]
    /\ error' = "SinkConfigurationError"
    /\ pc' = RaiseTarget
    /\ UNCHANGED <<args, tracker, trackerInst, pos, video_info, locals, display, hist>>

\* lines 24 / 31: for frame in tqdm(frame_generator, ...)  -- next frame
Fetch ==
    /\ pc = "loop"
    /\ pos < Len(source.frames)
    /\ pos' = pos + 1
    /\ frame' = Decode(source.frames[pos + 1])
    /\ log' = Append(log, <<"fetch", pos + 1>>)
    /\ pc' = "detect"
    /\ UNCHANGED <<args, error, tracker, trackerInst, video_info, results, detections,
                   labels, annotated_frame, sink, display, detHist, updHist, quitAt>>

\* lines 24 / 31: the generator is exhausted
ExhaustedChecksTotal ==
    /\ pc = "loop"
    /\ pos >= Len(source.frames)
    /\ error' = IF pos < video_info.total_frames THEN "SourceTruncated" ELSE error
    /\ pc' = IF pos < video_info.total_frames THEN RaiseTarget
             ELSE IF Truthy(target_video_path) THEN "sink_exit" ELSE "teardown"
    /\ UNCHANGED <<args, tracker, trackerInst, pos, video_info, locals,
                   sink, display, hist>>

Exhausted ==
    /\ pc = "loop"
    /\ pos >= Len(source.frames)
    /\ pc' = IF Truthy(target_video_path) THEN "sink_exit" ELSE "teardown"
    /\ UNCHANGED <<args, error, tracker, trackerInst, pos, video_info, locals,
                   sink, display, hist>>

\* lines 50-52: results = model(frame, ...)[0]
Detect ==
    /\ pc = "detect"
    /\ \E r \in RawResults : results' = r
    /\ log' = Append(log, Event("detect"))
    /\ pc' = "normalize"
    /\ UNCHANGED <<args, error, tracker, trackerInst, pos, video_info, frame, detections,
                   labels, annotated_frame, sink, display, detHist, updHist, quitAt>>

DetectFailsRetry ==
    /\ pc = "detect"
    /\ log' = Append(log, Event("detect"))
    /\ pc' = "detect"
    /\ UNCHANGED <<args, error, tracker, trackerInst, pos, video_info, locals,
                   sink, display, detHist, updHist, quitAt>>

DetectFails ==
    /\ pc = "detect"
    /\ log' = Append(log, Event("detect"))
    /\ error' = "DetectionFailure"
    /\ pc' = RaiseTarget
    /\ UNCHANGED <<args, tracker, trackerInst, pos, video_info, locals,
                   sink, display, detHist, updHist, quitAt>>

\* line 53: detections = sv.Detections.from_ultralytics(results)
Normalize ==
    /\ pc = "normalize"
    /\ detections' = FromUltralytics(results)
    /\ detHist' = Append(detHist, [n |-> pos, scene |-> frame.scene, boxes |-> BoxesOf(results)])
    /\ pc' = "override"
    /\ UNCHANGED <<args, error, tracker, trackerInst, pos, video_info, frame, results,
                   labels, annotated_frame, sink, display, updHist, log, quitAt>>

\* line 54: detections.class_id = np.zeros(len(detections))
Override ==
    /\ pc = "override"
    /\ detections' = OverrideClass(detections)
    /\ pc' = "track"
    /\ UNCHANGED <<args, error, tracker, trackerInst, pos, video_info, frame, results,
                   labels, annotated_frame, sink, display, hist>>

\* line 55: detections = tracker.update_with_detections(detections)
TrackNoUpdate ==
    /\ pc = "track"
    /\ pc' = "labels"
    /\ UNCHANGED <<args, error, tracker, trackerInst, pos, video_info, locals,
                   sink, display, hist>>

TrackFreshTracker ==
    /\ pc = "track"
    /\ LET upd == TrackerUpdate(EmptyTracker, detections, <<>>)
       IN  /\ tracker' = upd.tracker
           /\ detections' = upd.out
           /\ updHist' = Append(updHist, [n |-> pos, dets |-> detections, out |-> upd.out])
    /\ log' = Append(log, Event("track"))
    /\ pc' = "labels"
    /\ UNCHANGED <<args, error, trackerInst, pos, video_info, frame, results,
                   labels, annotated_frame, sink, display, detHist, quitAt>>

Track ==
    /\ pc = "track"
    /\ LET upd == TrackerUpdate(tracker, detections, <<>>)
       IN  /\ tracker' = upd.tracker
           /\ detections' = upd.out
    /\ updHist' = Append(updHist, [n |-> pos, dets |-> detections,
                                   out |-> TrackerUpdate(tracker, detections, <<>>).out])
    /\ log' = Append(log, Event("track"))
    /\ pc' = "labels"
    /\ UNCHANGED <<args, error, trackerInst, pos, video_info, frame, results,
                   labels, annotated_frame, sink, display, detHist, quitAt>>

TrackFails ==
    /\ pc = "track"
    /\ updHist' = Append(updHist, [n |-> pos, dets |-> detections, out |-> <<>>])
    /\ log' = Append(log, Event("track"))
    /\ error' = "TrackingFailure"
    /\ pc' = RaiseTarget
    /\ UNCHANGED <<args, tracker, trackerInst, pos, video_info, locals,
                   sink, display, detHist, quitAt>>

\* lines 56-59: labels = [f"#{tracker_id}" ...]
LabelsFromDetector ==
    /\ pc = "labels"
    /\ labels' = LabelsOf(FromUltralytics(results))
    /\ pc' = "annotate"
    /\ UNCHANGED <<args, error, tracker, trackerInst, pos, video_info, frame, results,
                   detections, annotated_frame, sink, display, hist>>

Labels ==
    /\ pc = "labels"
    /\ labels' = LabelsOf(detections)
    /\ pc' = "annotate"
    /\ UNCHANGED <<args, error, tracker, trackerInst, pos, video_info, frame, results,
                   detections, annotated_frame, sink, display, hist>>

\* lines 60-63 and 25 / 32: annotated_frame = box_annotator.annotate(frame.copy(), ...);
\* the drawing lands on the copy, the frame object keeps its contents;
\* process_frame returns and its locals go out of scope
AnnotateFrameInPlace ==
    /\ pc = "annotate"
    /\ annotated_frame' = Annotate(frame, detections, labels)
    /\ frame' = Annotate(frame, detections, labels)
    /\ results' = <<>>
    /\ detections' = <<>>
    /\ labels' = <<>>
    /\ log' = Append(log, Event("annotate"))
    /\ pc' = IF Truthy(target_video_path) THEN "write" ELSE "show"
    /\ UNCHANGED <<args, error, tracker, trackerInst, pos, video_info,
                   sink, display, detHist, updHist, quitAt>>

AnnotateFrame ==
    /\ pc = "annotate"
    /\ annotated_frame' = Annotate(frame, detections, labels)
    /\ results' = <<>>
    /\ detections' = <<>>
    /\ labels' = <<>>
    /\ log' = Append(log, Event("annotate"))
    /\ pc' = IF Truthy(target_video_path) THEN "write" ELSE "show"
    /\ UNCHANGED <<args, error, tracker, trackerInst, pos, video_info, frame,
                   sink, display, detHist, updHist, quitAt>>

AnnotateFails ==
    /\ pc = "annotate"
    /\ log' = Append(log, Event("annotate"))
    /\ error' = "AnnotationFailure"
    /\ pc' = RaiseTarget
    /\ UNCHANGED <<args, tracker, trackerInst, pos, video_info, locals,
                   sink, display, detHist, updHist, quitAt>>

\* line 29: sink.write_frame(frame=annotated_frame)
WriteFrameSkipEmpty ==
    /\ pc = "write"
    /\ sink' = IF annotated_frame.detections = <<>> THEN sink
               ELSE [sink EXCEPT !.frames = Append(@, annotated_frame)]
    /\ log' = Append(log, Event("write"))
    /\ pc' = "loop"
    /\ UNCHANGED <<args, error, tracker, trackerInst, pos, video_info, locals,
                   display, detHist, updHist, quitAt>>

WriteFrameThenStop ==
    /\ pc = "write"
    /\ sink' = [sink EXCEPT !.frames = Append(@, annotated_frame)]
    /\ log' = Append(log, Event("write"))
    /\ pc' = "sink_exit"
    /\ UNCHANGED <<args, error, tracker, trackerInst, pos, video_info, locals,
                   display, detHist, updHist, quitAt>>

WriteFrame ==
    /\ pc = "write"
    /\ sink' = [sink EXCEPT !.frames = Append(@, annotated_frame)]
    /\ log' = Append(log, Event("write"))
    /\ pc' = "loop"
    /\ UNCHANGED <<args, error, tracker, trackerInst, pos, video_info, locals,
                   display, detHist, updHist, quitAt>>

WriteFrameFails ==
    /\ pc = "write"
    /\ log' = Append(log, Event("write"))
    /\ error' = "WriteFailure"
    /\ pc' = RaiseTarget
    /\ UNCHANGED <<args, tracker, trackerInst, pos, video_info, locals,
                   sink, display, detHist, updHist, quitAt>>

\* line 23: leaving the with-block (__exit__ releases the writer)
SinkExit ==
    /\ pc = "sink_exit"
    /\ sink' = [sink EXCEPT !.state = "released"]
    /\ pc' = IF error = "none" THEN "done" ELSE "raised"
    /\ UNCHANGED <<args, error, tracker, trackerInst, pos, video_info, locals,
                   display, hist>>

\* line 36: cv2.imshow('Processed Video', annotated_frame)
ShowSkipPoll ==
    /\ pc = "show"
    /\ display' = [display EXCEPT !.open = TRUE, !.frames = Append(@, annotated_frame)]
    /\ log' = Append(log, Event("show"))
    /\ pc' = "loop"
    /\ UNCHANGED <<args, error, tracker, trackerInst, pos, video_info, locals,
                   sink, detHist, updHist, quitAt>>

ShowPollEveryOther ==
    /\ pc = "show"
    /\ display' = [display EXCEPT !.open = TRUE, !.frames = Append(@, annotated_frame)]
    /\ log' = Append(log, Event("show"))
    /\ pc' = IF pos % 2 = 0 THEN "poll" ELSE "loop"
    /\ UNCHANGED <<args, error, tracker, trackerInst, pos, video_info, locals,
                   sink, detHist, updHist, quitAt>>

Show ==
    /\ pc = "show"
    /\ display' = [display EXCEPT !.open = TRUE, !.frames = Append(@, annotated_frame)]
    /\ log' = Append(log, Event("show"))
    /\ pc' = "poll"
    /\ UNCHANGED <<args, error, tracker, trackerInst, pos, video_info, locals,
                   sink, detHist, updHist, quitAt>>

\* lines 37-38: if cv2.waitKey(1) & 0xFF == ord('q'): break
AfterPollNoBreak(key) == "loop"
AfterPollReturn(key) == IF IsQuit(key) THEN "done" ELSE "loop"
AfterPoll(key) == IF IsQuit(key) THEN "teardown" ELSE "loop"

Poll ==
    /\ pc = "poll"
    /\ \E key \in Keys :
          /\ quitAt' = IF IsQuit(key) THEN pos ELSE quitAt
          /\ pc' = AfterPoll(key)
    /\ log' = Append(log, Event("poll"))
    /\ UNCHANGED <<args, error, tracker, trackerInst, pos, video_info, locals,
                   sink, display, detHist, updHist>>

\* line 39: cv2.destroyAllWindows()
Teardown ==
    /\ pc = "teardown"
    /\ display' = [display EXCEPT !.open = FALSE, !.destroyed = @ + 1]
    /\ pc' = "done"
    /\ UNCHANGED <<args, error, tracker, trackerInst, pos, video_info, locals,
                   sink, hist>>

Next ==
    \/ Setup
    \/ ReadVideoInfo
    \/ ReadVideoInfoFails
    \/ Branch
    \/ SinkEnter
    \/ SinkEnterFails
    \/ Fetch
    \/ Exhausted
    \/ Detect
    \/ DetectFails
    \/ Normalize
    \/ Override
    \/ Track
    \/ TrackFails
    \/ Labels
    \/ AnnotateFrame
    \/ AnnotateFails
    \/ WriteFrame
    \/ WriteFrameFails
    \/ SinkExit
    \/ Show
    \/ Poll
    \/ Teardown

Spec == Init /\ [][Next]_vars

\* one thread of control: the statement the program is at is always executed
FairSpec == Spec /\ WF_vars(Next)

\* ------------------------------------------------------- derived notions
FileMode == Truthy(target_video_path)
Terminated == pc \in {"done", "raised"}
Fetched == SubSeq(source.frames, 1, pos)
Count(stage, n) == Cardinality({i \in 1..Len(log) : log[i] = <<stage, n>>})
CountAll(stage) == Cardinality({i \in 1..Len(log) : log[i][1] = stage})

TypeOK ==
    /\ pc \in {"start", "info", "branch", "sink_enter", "loop", "detect", "normalize",
               "override", "track", "labels", "annotate", "write", "show", "poll",
               "teardown", "sink_exit", "done", "raised"}
    /\ pos \in 0..MaxFrames
    /\ sink.state \in {"absent", "open", "released"}

\* ================================================================ claims
StagesOf ==
    IF FileMode THEN <<"fetch", "detect", "track", "annotate", "write">>
    ELSE <<"fetch", "detect", "track", "annotate", "show", "poll">>

\* a target path counts as supplied when the argument is a non-empty string
PathSupplied(p) == p # DefaultTargetPath /\ p # ""

LoopErrors == {"DetectionFailure", "TrackingFailure", "AnnotationFailure", "WriteFailure"}

\* the iteration of frame pos has got past the tracker call
PastTrack == pc \notin {"detect", "normalize", "override", "track"}
                /\ error # "DetectionFailure"

\* C1 (as stated): once the iteration of a fetched frame is over, or the run
\* has ended, the tracker has been updated exactly once for every fetched frame.
C1_UpdateForEveryFetchedFrame ==
    (pc \in {"loop", "teardown", "sink_exit", "done", "raised"})
        => \A n \in 1..pos : Count("track", n) = 1

\* C1 (amended): the tracker is updated at most once per fetched frame, the
\* j-th update receives the detections of the j-th frame of the source, every
\* fetched frame whose detection did not raise is updated exactly once by the
\* time its iteration is past the tracker call, and the one frame on which the
\* detector raises is fetched but gets no update.
C1_UpdateOncePerFrameInOrder ==
    /\ Len(updHist) <= pos
    /\ CountAll("track") = Len(updHist)
    /\ \A j \in 1..Len(updHist) :
          /\ updHist[j].n = j
          /\ detHist[j].n = j
          /\ detHist[j].scene = source.frames[j]
          /\ BoxesOf(updHist[j].dets) = detHist[j].boxes
    /\ \A n \in 1..pos :
          Count("track", n) = IF n < pos \/ PastTrack THEN 1 ELSE 0

C1_Witness ==
    /\ FileMode
    /\ pc = "raised"
    /\ error = "DetectionFailure"
    /\ pos = 2
    /\ Len(updHist) = 1
    /\ updHist[1].dets # <<>>

\* C2: file variant: once the video writer has been acquired the run never
\* ends with it still open, whether the loop finished or a stage raised.
C2_SinkReleasedOnEveryExit ==
    /\ Terminated => sink.state # "open"
    /\ (Terminated /\ FileMode /\ error \in LoopErrors \cup {"none"})
          => sink.state = "released"

C2_Witness ==
    /\ pc = "raised"
    /\ error = "WriteFailure"
    /\ sink.state = "released"
    /\ Len(sink.frames) = 1

\* C3: display variant: when a stage raises inside the frame loop, the display
\* windows have been destroyed by the time the error surfaces to the caller.
C3_DisplayTeardownOnError ==
    (~FileMode /\ pc = "raised" /\ error \in LoopErrors)
        => (display.destroyed >= 1 /\ ~display.open)

\* C4: display variant: when the quit signal is seen at the poll of frame k,
\* frames 1..k have each been detected, tracked, annotated and displayed
\* exactly once, nothing is done for a later frame, the loop is left for the
\* teardown, and the run ends normally with the windows destroyed.
C4_QuitEndsLoopAfterFrameK ==
    quitAt > 0 =>
        /\ ~FileMode
        /\ pos = quitAt
        /\ pc \in {"teardown", "done"}
        /\ error = "none"
        /\ \A n \in 1..quitAt :
              \A st \in {"fetch", "detect", "track", "annotate", "show", "poll"} :
                  Count(st, n) = 1
        /\ \A i \in 1..Len(log) : log[i][2] <= quitAt
        /\ Len(display.frames) = quitAt
        /\ pc = "done" => (~display.open /\ display.destroyed = 1)

C4_Witness ==
    /\ quitAt = 2
    /\ Len(source.frames) = 3
    /\ pc = "done"
    /\ display.destroyed = 1

C6_OutputMatchesSource ==
    (FileMode /\ pc = "done") =>
        /\ Len(sink.frames) = Len(source.frames)
        /\ \A i \in 1..Len(sink.frames) :
              /\ sink.frames[i].scene = source.frames[i]
              /\ BoxesOf(sink.frames[i].detections) = detHist[i].boxes
              /\ sink.frames[i].labels = LabelsOf(sink.frames[i].detections)

C6_Witness ==
    /\ FileMode
    /\ pc = "done"
    /\ Len(source.frames) = 3
    /\ Len(sink.frames) = 3
    /\ sink.frames[1].detections = <<>>
    /\ sink.frames[2].detections # <<>>
    /\ sink.frames[3].detections = <<>>

\* C7: the stages run in the fixed order fetch, detect, track, annotate, sink
\* for frame 1, then for frame 2, and so on: the k-th stage invocation of the
\* run is the stage and the frame that this order gives.
C7_StrictStageOrder ==
    \A j \in 1..Len(log) :
        log[j] = <<StagesOf[((j - 1) % Len(StagesOf)) + 1],
                   ((j - 1) \div Len(StagesOf)) + 1>>

C7_Witness ==
    /\ ~FileMode
    /\ Len(log) = 13
    /\ log[13] = <<"fetch", 3>>
    /\ log[12] = <<"poll", 2>>

\* C8: an unopenable or zero-frame source fails with SourceUnreadable before
\* any frame is fetched, detected or tracked and before any sink is touched.
C8_SourceUnreadableBeforeFrames ==
    (~source.openable \/ source.total_frames = 0) =>
        /\ pc \in {"start", "info", "raised"}
        /\ pc = "raised" => error = "SourceUnreadable"
        /\ pos = 0
        /\ log = <<>>
        /\ updHist = <<>>
        /\ sink = [state |-> "absent", cfg |-> "none", frames |-> <<>>]
        /\ display = [open |-> FALSE, frames |-> <<>>, destroyed |-> 0]

C8_Witness ==
    /\ source.openable
    /\ source.total_frames = 0
    /\ FileMode
    /\ pc = "raised"
    /\ error = "SourceUnreadable"

\* C9: file variant: a sink configuration that differs from VideoInfo fails
\* the run with SinkConfigurationError at sink setup, with no frame fetched,
\* detected, tracked or written.
C9_SinkMismatchBeforeFrames ==
    /\ (video_info # NoVideoInfo /\ sink.cfg \notin {"none", video_info.cfg})
          => error = "SinkConfigurationError"
    /\ error = "SinkConfigurationError" =>
          /\ pc = "raised"
          /\ pos = 0
          /\ log = <<>>
          /\ updHist = <<>>
          /\ sink.state = "absent"
          /\ sink.frames = <<>>

C9_Witness ==
    /\ pc = "raised"
    /\ error = "SinkConfigurationError"
    /\ sink.cfg # video_info.cfg
    /\ Len(source.frames) = 2

\* C10: a detection failure on frame k ends the run: the model was invoked
\* once on frame k, the tracker was not updated for it, frame k was neither
\* written nor displayed, no later frame is fetched, and the error is on its
\* way to the caller (only the sink's release may precede it).
C10_DetectionFailureFatal ==
    /\ \A n \in 1..pos : Count("detect", n) <= 1
    /\ error = "DetectionFailure" =>
          /\ pc \in {"sink_exit", "raised"}
          /\ log # <<>> /\ log[Len(log)] = <<"detect", pos>>
          /\ Count("detect", pos) = 1
          /\ Count("track", pos) = 0
          /\ Len(updHist) = pos - 1
          /\ Count("write", pos) = 0 /\ Count("show", pos) = 0
          /\ Len(sink.frames) + Len(display.frames) = pos - 1

C10_Witness ==
    /\ ~FileMode
    /\ pc = "raised"
    /\ error = "DetectionFailure"
    /\ pos = 3
    /\ Len(display.frames) = 2

Truncated == source.openable /\ Len(source.frames) < source.total_frames

\* C11: a stream that yields fewer frames than VideoInfo.total_frames is not
\* an error: no failure arises from the shortfall, and a run that ends
\* without failure and without quit has tracked and delivered exactly the
\* frames the stream yielded and has released its sink or display.
C11_TruncationNotFatal ==
    Truncated =>
        /\ error \in LoopErrors \cup {"none", "SinkConfigurationError"}
        /\ (pc \in {"loop", "sink_exit", "teardown", "done"} /\ error = "none")
              => (Len(updHist) = pos /\ Len(sink.frames) + Len(display.frames) = pos)
        /\ (pc = "done" /\ quitAt = 0) =>
              /\ pos = Len(source.frames)
              /\ Len(updHist) = Len(source.frames)
              /\ IF FileMode
                 THEN sink.state = "released" /\ Len(sink.frames) = Len(source.frames)
                 ELSE /\ ~display.open /\ display.destroyed = 1
                      /\ Len(display.frames) = Len(source.frames)

C11_Witness ==
    /\ FileMode
    /\ Len(source.frames) = 2
    /\ video_info.total_frames = 3
    /\ pc = "done"
    /\ sink.state = "released"
    /\ Len(sink.frames) = 2

\* C12: the frame object yielded by the source holds the same contents after
\* process_frame as when it was fetched: the drawing is on a copy.
C12_InputFrameUnaltered ==
    pos > 0 => frame = Decode(source.frames[pos])

C12_Witness ==
    /\ pc = "show"
    /\ annotated_frame.detections # <<>>
    /\ annotated_frame.scene = frame.scene
    /\ frame.detections = <<>>

\* C13: display variant: each displayed frame is polled exactly once, the
\* poll of frame k comes right after frame k is shown and before frame k+1
\* is fetched.
C13_OnePollPerDisplayedFrame ==
    ~FileMode =>
        /\ \A n \in 1..pos :
              /\ Count("poll", n) <= 1
              /\ Count("poll", n) <= Count("show", n)
              /\ (pc # "poll" \/ n < pos) => Count("poll", n) = Count("show", n)
        /\ \A i \in 1..Len(log) :
              /\ (log[i][1] = "show" /\ i < Len(log))
                    => log[i + 1] = <<"poll", log[i][2]>>
              /\ log[i][1] = "poll" =>
                    /\ i > 1 /\ log[i - 1] = <<"show", log[i][2]>>
                    /\ i < Len(log) => log[i + 1] = <<"fetch", log[i][2] + 1>>

C13_Witness ==
    /\ ~FileMode
    /\ quitAt = 0
    /\ pc = "detect"
    /\ pos = 3
    /\ CountAll("poll") = 2
    /\ Len(display.frames) = 2

\* C14: every detection handed to the tracker carries the one canonical class
\* identifier whatever the model reported; the override comes after the
\* normalisation of the model's output and before the tracker update.
C14_CanonicalClassBeforeTrack ==
    /\ \A j \in 1..Len(updHist) : \A i \in 1..Len(updHist[j].dets) :
          updHist[j].dets[i].class_id = CanonicalClass
    /\ pc = "override" =>
          /\ detections = FromUltralytics(results)
          /\ Len(updHist) = pos - 1
    /\ pc = "track" =>
          /\ Len(updHist) = pos - 1
          /\ Len(detections) = Len(results)
          /\ \A i \in 1..Len(detections) :
                /\ detections[i].class_id = CanonicalClass
                /\ detections[i].box = results[i].box

C14_Witness ==
    /\ pc = "labels"
    /\ Len(results) = 2
    /\ \A i \in 1..Len(results) : results[i].class_id = 2
    /\ Len(updHist) = pos
    /\ \A i \in 1..2 : updHist[pos].dets[i].class_id = CanonicalClass

\* frames handed to the sink so far, in order
Delivered == IF FileMode THEN sink.frames ELSE display.frames

\* C15: the labels given to the annotator come from the tracker's output: one
\* label per output detection, label i being "#" and the track identifier of
\* detection i, and the render step gets that same detection set in that order.
C15_LabelsFromTrackerOutput ==
    /\ pc = "annotate" =>
          /\ detections = updHist[pos].out
          /\ Len(labels) = Len(detections)
          /\ \A i \in 1..Len(labels) :
                /\ labels[i] = <<"#", updHist[pos].out[i].tracker_id>>
                /\ updHist[pos].out[i].tracker_id >= FirstTrackId
    /\ \A j \in 1..Len(Delivered) :
          /\ Delivered[j].detections = updHist[j].out
          /\ Len(Delivered[j].labels) = Len(updHist[j].out)
          /\ \A i \in 1..Len(updHist[j].out) :
                Delivered[j].labels[i] = <<"#", updHist[j].out[i].tracker_id>>

C15_Witness ==
    /\ pc = "annotate"
    /\ pos = 2
    /\ Len(detections) = 2
    /\ labels = << <<"#", 2>>, <<"#", 1>> >>

\* C16: file variant: nothing cancels the loop: no poll is made, no quit is
\* seen, and the loop is left without failure only when the source is
\* exhausted, every yielded frame having been processed and written.
C16_FileLoopNeverCancelled ==
    FileMode =>
        /\ quitAt = 0
        /\ CountAll("poll") = 0
        /\ (pc \in {"sink_exit", "done"} /\ error = "none") =>
              /\ pos = Len(source.frames)
              /\ Len(updHist) = Len(source.frames)
              /\ Len(sink.frames) = Len(source.frames)
              /\ \A n \in 1..Len(source.frames) : Count("write", n) = 1

C16_Witness ==
    /\ FileMode
    /\ pc = "sink_exit"
    /\ error = "none"
    /\ pos = 3
    /\ Len(sink.frames) = 3

\* the tracker state after the first k updates of a history
RECURSIVE Replay(_, _)
Replay(h, k) ==
    IF k = 0 THEN EmptyTracker
    ELSE TrackerUpdate(Replay(h, k - 1), h[k].dets, <<>>).tracker

\* updates that have returned
Completed == IF error = "TrackingFailure" THEN Len(updHist) - 1 ELSE Len(updHist)

\* C17: one tracker instance per run, made before the first fetch, carried
\* through every frame without reset: its state is what the updates so far
\* have made of the empty tracker, each update's output comes from the state
\* the previous updates left, and what is delivered for frame N is made of
\* frame N, its detections and that tracker state only.
C17_OneTrackerCarriedThrough ==
    /\ trackerInst <= 1
    /\ pos > 0 => trackerInst = 1
    /\ tracker = Replay(updHist, Completed)
    /\ \A j \in 1..Completed :
          updHist[j].out = TrackerUpdate(Replay(updHist, j - 1), updHist[j].dets, <<>>).out
    /\ \A j \in 1..Len(Delivered) :
          Delivered[j] = Annotate(Decode(source.frames[j]), updHist[j].out,
                                  LabelsOf(updHist[j].out))
    /\ pc = "detect" => (results = <<>> /\ detections = <<>> /\ labels = <<>>)

C17_Witness ==
    /\ pc = "done"
    /\ trackerInst = 1
    /\ Len(updHist) = 3
    /\ BoxesOf(updHist[1].dets) = <<"b1">>
    /\ BoxesOf(updHist[2].dets) = <<>>
    /\ BoxesOf(updHist[3].dets) = <<"b2", "b1">>
    /\ updHist[3].out[1].tracker_id = 2
    /\ updHist[3].out[2].tracker_id = 1

\* C18: every run comes to an end, and in the display variant a run that
\* returns has executed the teardown exactly once, whether the loop ended by
\* quit or by exhaustion of the source; the teardown never runs twice.
C18_TerminatesWithOneTeardown ==
    /\ <>Terminated
    /\ [](/\ display.destroyed <= 1
          /\ (~FileMode /\ pc = "done") => (display.destroyed = 1 /\ ~display.open)
          /\ (~FileMode /\ pc = "teardown") => display.destroyed = 0)

C18_Witness ==
    /\ ~FileMode
    /\ pc = "done"
    /\ quitAt = 0
    /\ pos = 3
    /\ Len(display.frames) = 3
    /\ display.destroyed = 1

\* C19: a poll is made only for a frame that has been fetched, detected,
\* tracked, annotated and shown, so a quit finds at least the first frame
\* fully processed and displayed; an empty source gets no poll at all.
C19_QuitNeverPreemptsFrame ==
    /\ \A i \in 1..Len(log) :
          log[i][1] = "poll" =>
              /\ log[i][2] >= 1
              /\ \A st \in {"fetch", "detect", "track", "annotate", "show"} :
                    \E k \in 1..(i - 1) : log[k] = <<st, log[i][2]>>
              /\ Len(display.frames) >= log[i][2]
    /\ quitAt > 0 =>
          /\ Len(display.frames) >= 1
          /\ \A st \in {"fetch", "detect", "track", "annotate", "show"} : Count(st, 1) = 1
    /\ Len(source.frames) = 0 => (CountAll("poll") = 0 /\ quitAt = 0)

C19_Witness ==
    /\ quitAt = 1
    /\ Len(source.frames) = 3
    /\ pc = "teardown"
    /\ Len(display.frames) = 1

\* C20: file variant: the sink is acquired after VideoInfo has been read and
\* before the first fetch; frames are fetched and processed only while it is
\* open; a source that yields no frame still opens and releases it, empty.
C20_SinkOpenAroundLoop ==
    FileMode =>
        /\ sink.state # "absent" => video_info = VideoInfoOf
        /\ pos > 0 => sink.state # "absent"
        /\ pc \in {"loop", "detect", "normalize", "override", "track", "labels",
                   "annotate", "write"} => sink.state = "open"
        /\ sink.state = "absent" => (log = <<>> /\ sink.frames = <<>>)
        /\ pc = "done" => sink.state = "released"
        /\ (pc = "done" /\ Len(source.frames) = 0) => sink.frames = <<>>

C20_Witness ==
    /\ FileMode
    /\ pc = "done"
    /\ source.frames = <<>>
    /\ video_info.total_frames = MaxFrames
    /\ sink.state = "released"
    /\ sink.frames = <<>>
====
